---- MODULE Spec2Model ----
(***************************************************************************)
(* The "/join/{roomIDOrAlias}" handler of clientapi/routing/joinroom.go.   *)
(* One join request runs as one sequential unit of work; every call to a   *)
(* collaborator (room server, federation client, key ring, producer) is a  *)
(* step whose outcome the environment chooses.                             *)
(*                                                                         *)
(* Identifiers are sequences of one-character strings, so that SplitID and *)
(* the sigil tests work on the text as the code does.                      *)
(***************************************************************************)
EXTENDS Integers, Sequences, FiniteSets, TLC

\* ------------------------------------------------------------------ bounds
MaxInvites == 2      \* longest list of invite senders QueryInvitesForUser returns
MaxServers == 2      \* longest server list LookupRoomAlias returns

\* ------------------------------------------------------------- identifiers
ServerName == <<"L">>                        \* r.cfg.Matrix.ServerName
RemoteA == <<"A">>
RemoteB == <<"B">>

RoomL == <<"!", "r", ":", "L">>
RoomA == <<"!", "r", ":", "A">>
RoomB == <<"!", "r", ":", "B">>
RoomNoColon == <<"!", "r">>
AliasL == <<"#", "a", ":", "L">>
AliasA == <<"#", "a", ":", "A">>
AliasNoColon == <<"#", "a">>
UserTarget == <<"@", "n", ":", "A">>
BareTarget == <<"r", ":", "A">>

\* The path variable of the route is never empty.
Targets == {RoomL, RoomA, RoomB, RoomNoColon, AliasL, AliasA, AliasNoColon,
            UserTarget, BareTarget}

\* device.UserID is the ID of an authenticated local user, of the form
\* @localpart:domain.
UserMe == <<"@", "m", ":", "L">>
UserIDs == {UserMe}

\* Invite senders: two users of one remote server, a local user, and an ID
\* without domain.
InviterIDs == {<<"@", "u", ":", "A">>, <<"@", "v", ":", "A">>,
               <<"@", "u", ":", "L">>, <<"@", "u">>}

SeqsUpTo(S, n) == UNION {[1..k -> S] : k \in 0..n}

\* ---------------------------------------------------------- room versions
RoomVersionV1 == <<"1">>
RoomVersionV2 == <<"2">>
RoomVersionUnknown == <<"9">>
\* What a make-join response may carry in room_version: nothing (""), a
\* version with a known event format, one with an unknown event format.
RemoteVersions == {<<>>, RoomVersionV2, RoomVersionUnknown}
\* The versions whose event format gomatrixserverlib knows.
KnownEventFormats == {RoomVersionV1, RoomVersionV2}
\* The AvailableRoomVersions the room server may report.
AvailableSets == {{RoomVersionV1}, {RoomVersionV1, RoomVersionV2}}

\* Mutant: every version passes for one with a known event format.
EventFormatErrNever(v) == FALSE

\* gomatrixserverlib.RoomVersion.EventFormat: an error for an unknown version
EventFormatErr(v) == v \notin KnownEventFormats

\* ------------------------------------------------------------------ SplitID
\* gomatrixserverlib.SplitID(sigil, id): SIGIL LOCALPART ":" DOMAIN, split on
\* the first ":".
Colons(id) == {i \in 1..Len(id) : id[i] = ":"}
FirstColon(id) == CHOOSE i \in Colons(id) : \A j \in Colons(id) : i <= j
SplitID(sigil, id) ==
    IF Len(id) = 0 \/ id[1] # sigil
    THEN [err |-> TRUE, local |-> <<>>, domain |-> <<>>]
    ELSE IF Colons(id) = {}
    THEN [err |-> TRUE, local |-> <<>>, domain |-> <<>>]
    ELSE [err |-> FALSE,
          local |-> SubSeq(id, 2, FirstColon(id) - 1),
          domain |-> SubSeq(id, FirstColon(id) + 1, Len(id))]

\* Mutant: any first character passes.
HasPrefixAny(s, c) == Len(s) > 0

\* strings.HasPrefix(s, c) for a one-character prefix
HasPrefix(s, c) == Len(s) > 0 /\ s[1] = c

\* --------------------------------------------------------- request content
EmptyMap == [k \in {} |-> ""]
Put(m, k, v) == [x \in DOMAIN m \cup {k} |-> IF x = k THEN v ELSE m[x]]

\* The request body: a JSON object, or something that is not one.
BodyObject == [membership |-> "leave", reason |-> "x"]
Bodies == {[valid |-> TRUE, obj |-> BodyObject], [valid |-> FALSE, obj |-> EmptyMap]}

\* The profile GetProfileByLocalpart returns.
ProfileDisplayName == "dn"
ProfileAvatarURL == "av"

\* Mutant: the membership the client sent is kept.
JoinContentMembershipKept(obj) ==
    Put(Put(obj, "displayname", ProfileDisplayName), "avatar_url", ProfileAvatarURL)

\* content["membership"], content["displayname"], content["avatar_url"]
JoinContent(obj) ==
    Put(Put(Put(obj, "membership", "join"), "displayname", ProfileDisplayName),
        "avatar_url", ProfileAvatarURL)

\* ------------------------------------------------------------------ events
\* The zero gomatrixserverlib.EventBuilder.
ZeroBuilder ==
    [Type |-> "", Content |-> EmptyMap, Unsigned |-> "", Sender |-> <<>>,
     StateKey |-> <<>>, RoomID |-> <<>>, Redacts |-> "", PrevEvents |-> ""]

\* What a remote server may put in the join event of its make-join response:
\* the template the protocol asks for, or something "odd".
OddUser == <<"@", "x", ":", "B">>
OddRoom == <<"!", "o", ":", "B">>
Templates(user, room) ==
    {[Type |-> "m.room.member", Content |-> [membership |-> "join"], Unsigned |-> "",
      Sender |-> user, StateKey |-> user, RoomID |-> room, Redacts |-> "",
      PrevEvents |-> "remote"],
     [Type |-> "m.room.power_levels", Content |-> [membership |-> "ban"],
      Unsigned |-> "u", Sender |-> OddUser, StateKey |-> <<>>, RoomID |-> OddRoom,
      Redacts |-> "$e", PrevEvents |-> "remote"]}

\* Mutant: the sender and the state key of the builder are left as they were.
writeToBuilderSenderKept(eb, user, cont, room) ==
    [eb EXCEPT !.Type = "m.room.member",
               !.Content = cont,
               !.Unsigned = "{}",
               !.RoomID = room,
               !.Redacts = ""]

\* Mutant: the redaction target of the builder is left as it was.
writeToBuilderRedactsKept(eb, user, cont, room) ==
    [eb EXCEPT !.Type = "m.room.member",
               !.Content = cont,
               !.Unsigned = "{}",
               !.Sender = user,
               !.StateKey = user,
               !.RoomID = room]

\* joinRoomReq.writeToBuilder: SetContent and SetUnsigned marshal a map decoded
\* from JSON and an empty struct, which cannot fail, so err is always nil.
writeToBuilder(eb, user, cont, room) ==
    [eb EXCEPT !.Type = "m.room.member",
               !.Content = cont,
               !.Unsigned = "{}",
               !.Sender = user,
               !.StateKey = user,
               !.RoomID = room,
               !.Redacts = ""]

\* A built (signed) event: the builder's fields bound to the origin server.
ZeroEvent == [eb |-> ZeroBuilder, Origin |-> <<>>, Format |-> <<>>, Signed |-> FALSE]
\* EventBuilder.Build(evTime, ServerName, KeyID, PrivateKey, roomVersion)
BuildSigned(eb, ver) == [eb |-> eb, Origin |-> ServerName, Format |-> ver, Signed |-> TRUE]

ZeroMakeJoin == [JoinEvent |-> ZeroBuilder, RoomVersion |-> <<>>]
StateSnapshots == {"s1", "s2"}

\* --------------------------------------------------------------- responses
\* A util.JSONResponse: the status code, the kind of body (JSON), the text of
\* its message (Msg), the value formatted into the message (Arg), the room_id.
NoResponse == [Code |-> 0, JSON |-> "", Msg |-> "", Arg |-> <<>>, RoomID |-> <<>>]
\* jsonerror.InternalServerError()
InternalServerError ==
    [Code |-> 500, JSON |-> "InternalServerError", Msg |-> "", Arg |-> <<>>,
     RoomID |-> <<>>]
StatusBadRequest == 400
StatusNotFound == 404
StatusOK == 200
ErrResponse(code, json, msg, arg) ==
    [Code |-> code, JSON |-> json, Msg |-> msg, Arg |-> arg, RoomID |-> <<>>]
\* struct{ RoomID string `json:"room_id"` }{roomID}
OKResponse(room) ==
    [Code |-> StatusOK, JSON |-> "room_id", Msg |-> "", Arg |-> <<>>, RoomID |-> room]
\* *resErr of httputil.UnmarshalJSONRequest: a body that is no JSON object is
\* reported to the client as a bad request.
UnmarshalError == ErrResponse(StatusBadRequest, "resErr", "", <<>>)

\* -------------------------------------------------------------------- state
VARIABLES
    roomIDOrAlias,     \* the target of the request
    userID,            \* device.UserID
    body,              \* the request body
    tsOK,              \* whether the ts parameter parses
    content,           \* r.content
    pc,                \* where the request is
    inviters,          \* queryRes.InviteSenderUserIDs in joinRoomByID
    roomID,            \* the room ID handed to joinRoomUsingServers
    servers,           \* the candidate servers handed to joinRoomUsingServers
    idx,               \* position of the for loop over servers
    lastErr,           \* lastErr of joinRoomUsingServers
    supportedVersions, \* supportedVersions of the current attempt
    respMakeJoin,      \* respMakeJoin of the current attempt
    event,             \* the built event (local path or current attempt)
    eventVersion,      \* queryRes.RoomVersion of the local path
    respSendJoin,      \* the state of respSendJoin of the current attempt
    response,          \* the util.JSONResponse returned
    calls,             \* history: the collaborator calls made, in order
    published          \* history: the calls to SendEvents / SendEventWithState

vars == <<roomIDOrAlias, userID, body, tsOK, content, pc, inviters, roomID, servers,
          idx, lastErr, supportedVersions, respMakeJoin, event, eventVersion,
          respSendJoin, response, calls, published>>

reqVars == <<roomIDOrAlias, userID, body, tsOK>>
attemptVars == <<supportedVersions, respMakeJoin, event, respSendJoin>>

\* One entry of the call history: the operation, the server it went to (<<>>
\* for a local collaborator), the position in servers of the candidate being
\* tried (0 before the loop), what came back or was passed (info) and whether
\* the call succeeded.
Call(op, srv, info, ok) ==
    [op |-> op, server |-> srv, cand |-> idx, info |-> info, ok |-> ok]

Init ==
    /\ roomIDOrAlias \in Targets
    /\ userID \in UserIDs
    /\ body \in Bodies
    /\ tsOK \in BOOLEAN
    /\ content = EmptyMap
    /\ pc = "JoinRoomByIDOrAlias"
    /\ inviters = <<>>
    /\ roomID = <<>>
    /\ servers = <<>>
    /\ idx = 0
    /\ lastErr = ""
    /\ supportedVersions = {}
    /\ respMakeJoin = ZeroMakeJoin
    /\ event = ZeroEvent
    /\ eventVersion = <<>>
    /\ respSendJoin = ""
    /\ response = NoResponse
    /\ calls = <<>>
    /\ published = <<>>

\* return a response
Return(resp) ==
    /\ pc' = "done"
    /\ response' = resp

\* ------------------------------------------------------ JoinRoomByIDOrAlias
JoinRoomByIDOrAlias ==
    /\ pc = "JoinRoomByIDOrAlias"
    /\ UNCHANGED <<reqVars, inviters, roomID, servers, idx, lastErr, attemptVars,
                   eventVersion, published>>
    /\ IF ~body.valid
       THEN Return(UnmarshalError) /\ UNCHANGED <<content, calls>>
       ELSE IF ~tsOK
       THEN /\ Return(ErrResponse(StatusBadRequest, "InvalidArgumentValue", "ts", <<>>))
            /\ UNCHANGED <<content, calls>>
       ELSE IF SplitID("@", userID).err
       THEN Return(InternalServerError) /\ UNCHANGED <<content, calls>>
       ELSE \E profileOK \in BOOLEAN :
              /\ calls' = Append(calls, Call("GetProfileByLocalpart", <<>>, <<>>, profileOK))
              /\ IF ~profileOK
                 THEN Return(InternalServerError) /\ UNCHANGED content
                 ELSE /\ content' = JoinContent(body.obj)
                      /\ IF HasPrefix(roomIDOrAlias, "!")
                         THEN pc' = "joinRoomByID" /\ UNCHANGED response
                         ELSE IF HasPrefix(roomIDOrAlias, "#")
                         THEN pc' = "joinRoomByAlias" /\ UNCHANGED response
                         ELSE Return(ErrResponse(StatusBadRequest, "BadJSON",
                                     "Invalid first character '%s' for room ID or alias",
                                     <<roomIDOrAlias[1]>>))

\* ------------------------------------------------------------- joinRoomByID
\* The loop over queryRes.InviteSenderUserIDs: servers in first-seen order,
\* seenInInviterIDs the domains already appended; err when SplitID fails.
RECURSIVE InviterServers(_, _)
InviterServers(ids, acc) ==
    IF ids = <<>> THEN acc
    ELSE LET sp == SplitID("@", Head(ids)) IN
         IF sp.err THEN [acc EXCEPT !.err = TRUE]
         ELSE IF sp.domain \notin acc.seen
         THEN InviterServers(Tail(ids),
                  [acc EXCEPT !.servers = Append(acc.servers, sp.domain),
                              !.seen = acc.seen \cup {sp.domain}])
         ELSE InviterServers(Tail(ids), acc)

\* Mutant: the room's domain is appended without looking at the inviters'.
AppendRoomDomainUnseen(acc, room) ==
    LET sp == SplitID("!", room) IN
    IF sp.err THEN [acc EXCEPT !.err = TRUE]
    ELSE IF sp.domain # ServerName
    THEN [acc EXCEPT !.servers = Append(acc.servers, sp.domain)]
    ELSE acc

\* The domain of the room ID as a last resort.
AppendRoomDomain(acc, room) ==
    LET sp == SplitID("!", room) IN
    IF sp.err THEN [acc EXCEPT !.err = TRUE]
    ELSE IF sp.domain # ServerName /\ sp.domain \notin acc.seen
    THEN [acc EXCEPT !.servers = Append(acc.servers, sp.domain)]
    ELSE acc

CandidateServers(room, ids) ==
    LET acc == InviterServers(ids, [servers |-> <<>>, seen |-> {}, err |-> FALSE]) IN
    IF acc.err THEN acc ELSE AppendRoomDomain(acc, room)

joinRoomByID ==
    /\ pc = "joinRoomByID"
    /\ UNCHANGED <<reqVars, content, idx, lastErr, attemptVars, eventVersion, published>>
    /\ \/ /\ calls' = Append(calls, Call("QueryInvitesForUser", <<>>, <<>>, FALSE))
          /\ Return(InternalServerError)
          /\ UNCHANGED <<inviters, roomID, servers>>
       \/ \E ids \in SeqsUpTo(InviterIDs, MaxInvites) :
            /\ calls' = Append(calls, Call("QueryInvitesForUser", <<>>, <<>>, TRUE))
            /\ inviters' = ids
            /\ LET res == CandidateServers(roomIDOrAlias, ids) IN
               IF res.err
               THEN Return(InternalServerError) /\ UNCHANGED <<roomID, servers>>
               ELSE /\ roomID' = roomIDOrAlias
                    /\ servers' = res.servers
                    /\ pc' = "joinRoomUsingServers"
                    /\ UNCHANGED response

\* ---------------------------------------------------------- joinRoomByAlias
\* The room IDs a directory lookup may resolve an alias to.
ResolvedRoomIDs == {RoomL, RoomA}

joinRoomByAlias ==
    /\ pc = "joinRoomByAlias"
    /\ UNCHANGED <<reqVars, content, inviters, idx, lastErr, attemptVars, eventVersion,
                   published>>
    /\ LET sp == SplitID("#", roomIDOrAlias) IN
       IF sp.err
       THEN /\ Return(ErrResponse(StatusBadRequest, "BadJSON",
                                  "Room alias must be in the form '#localpart:domain'", <<>>))
            /\ UNCHANGED <<roomID, servers, calls>>
       ELSE IF sp.domain = ServerName
       THEN \/ /\ calls' = Append(calls, Call("GetRoomIDForAlias", <<>>, <<>>, FALSE))
               /\ Return(InternalServerError)
               /\ UNCHANGED <<roomID, servers>>
            \/ \E rid \in ResolvedRoomIDs \cup {<<>>} :
                 /\ calls' = Append(calls, Call("GetRoomIDForAlias", <<>>, rid, TRUE))
                 /\ IF Len(rid) > 0
                    THEN /\ roomID' = rid
                         /\ servers' = <<ServerName>>
                         /\ pc' = "joinRoomUsingServers"
                         /\ UNCHANGED response
                    ELSE /\ Return(ErrResponse(StatusNotFound, "NotFound",
                                               "Room alias %s not found.", roomIDOrAlias))
                         /\ UNCHANGED <<roomID, servers>>
       ELSE /\ pc' = "joinRoomByRemoteAlias"
            /\ UNCHANGED <<roomID, servers, calls, response>>

\* The ways LookupRoomAlias fails: a gomatrix.HTTPError with code 404, one with
\* another code, and an error of another type.
LookupErrors == {"HTTPError404", "HTTPError500", "error"}

\* Mutant: every HTTP error of the lookup is taken as not found.
LookupRoomAliasFailedAnyCode(e) ==
    IF e \in {"HTTPError404", "HTTPError500"}
    THEN Return(ErrResponse(StatusNotFound, "NotFound", "Room alias not found", <<>>))
    ELSE Return(InternalServerError)

\* The switch on the error of LookupRoomAlias.
LookupRoomAliasFailed(e) ==
    IF e = "HTTPError404"
    THEN Return(ErrResponse(StatusNotFound, "NotFound", "Room alias not found", <<>>))
    ELSE Return(InternalServerError)

joinRoomByRemoteAlias ==
    /\ pc = "joinRoomByRemoteAlias"
    /\ UNCHANGED <<reqVars, content, inviters, idx, lastErr, attemptVars, eventVersion,
                   published>>
    /\ LET domain == SplitID("#", roomIDOrAlias).domain IN
       \/ \E e \in LookupErrors :
            /\ calls' = Append(calls, Call("LookupRoomAlias", domain, <<e>>, FALSE))
            /\ LookupRoomAliasFailed(e)
            /\ UNCHANGED <<roomID, servers>>
       \/ \E rid \in ResolvedRoomIDs, srv \in SeqsUpTo({RemoteA, RemoteB, ServerName}, MaxServers) :
            /\ calls' = Append(calls, Call("LookupRoomAlias", domain, rid, TRUE))
            /\ roomID' = rid
            /\ servers' = srv
            /\ pc' = "joinRoomUsingServers"
            /\ UNCHANGED response

\* ----------------------------------------------------- joinRoomUsingServers
\* What common.BuildEvent returns: an event, ErrRoomNoExists, another error.
BuildEventOutcomes == {"ok", "ErrRoomNoExists", "error"}
AllRoomVersions == UNION AvailableSets

ResetAttempt ==
    /\ supportedVersions' = {}
    /\ respMakeJoin' = ZeroMakeJoin
    /\ event' = ZeroEvent
    /\ respSendJoin' = ""

\* Mutant: no test for an empty list; the loop runs zero times and falls
\* through to the failure after it.
StartLoopNoEmptyTest ==
    IF Len(servers) = 0
    THEN /\ Return(InternalServerError)
         /\ UNCHANGED idx
    ELSE /\ idx' = 1
         /\ pc' = "QueryRoomVersionCapabilities"
         /\ UNCHANGED response

\* The room is not here: NotFound without candidates, else the first server.
StartLoop ==
    IF Len(servers) = 0
    THEN /\ Return(ErrResponse(StatusNotFound, "NotFound",
                               "No candidate servers found for room", <<>>))
         /\ UNCHANGED idx
    ELSE /\ idx' = 1
         /\ pc' = "QueryRoomVersionCapabilities"
         /\ UNCHANGED response

\* Mutant: every error of BuildEvent leads on to the servers.
joinRoomUsingServersAnyError ==
    /\ pc = "joinRoomUsingServers"
    /\ UNCHANGED <<reqVars, content, inviters, roomID, servers, lastErr,
                   supportedVersions, respMakeJoin, respSendJoin, published>>
    /\ LET eb == writeToBuilder(ZeroBuilder, userID, content, roomID) IN
       \E out \in BuildEventOutcomes :
         /\ calls' = Append(calls, Call("BuildEvent", <<>>, <<out>>, out = "ok"))
         /\ IF out = "ok"
            THEN \E v \in AllRoomVersions :
                   /\ event' = BuildSigned([eb EXCEPT !.PrevEvents = "local"], v)
                   /\ eventVersion' = v
                   /\ pc' = "SendEvents"
                   /\ UNCHANGED <<idx, response>>
            ELSE StartLoop /\ UNCHANGED <<event, eventVersion>>

\* The local attempt: build the event against the local state of the room.
joinRoomUsingServers ==
    /\ pc = "joinRoomUsingServers"
    /\ UNCHANGED <<reqVars, content, inviters, roomID, servers, lastErr,
                   supportedVersions, respMakeJoin, respSendJoin, published>>
    /\ LET eb == writeToBuilder(ZeroBuilder, userID, content, roomID) IN
       \E out \in BuildEventOutcomes :
         /\ calls' = Append(calls, Call("BuildEvent", <<>>, <<out>>, out = "ok"))
         /\ IF out = "ok"
            THEN \E v \in AllRoomVersions :
                   /\ event' = BuildSigned([eb EXCEPT !.PrevEvents = "local"], v)
                   /\ eventVersion' = v
                   /\ pc' = "SendEvents"
                   /\ UNCHANGED <<idx, response>>
            ELSE IF out # "ErrRoomNoExists"
            THEN Return(InternalServerError) /\ UNCHANGED <<idx, event, eventVersion>>
            ELSE StartLoop /\ UNCHANGED <<event, eventVersion>>

\* A publication: the call, the event, its room version, the state sent with it.
Publication(op, ev, ver, state, ok) ==
    [op |-> op, cand |-> idx, event |-> ev, RoomVersion |-> ver, state |-> state,
     ok |-> ok]

SendEvents ==
    /\ pc = "SendEvents"
    /\ UNCHANGED <<reqVars, content, inviters, roomID, servers, idx, lastErr, attemptVars,
                   eventVersion, calls>>
    /\ \E ok \in BOOLEAN :
         /\ published' = Append(published,
                                Publication("SendEvents", event, eventVersion, "", ok))
         /\ IF ok THEN Return(OKResponse(roomID)) ELSE Return(InternalServerError)

\* ------------------------------------------------- the loop over the servers
server == servers[idx]

\* Mutant: the first error of a request is answered by trying the same
\* server again.
TryNextServerRetryFirst(err) ==
    /\ lastErr' = err
    /\ ResetAttempt
    /\ IF lastErr = ""
       THEN /\ idx' = idx
            /\ pc' = "QueryRoomVersionCapabilities"
            /\ UNCHANGED response
       ELSE IF idx < Len(servers)
       THEN /\ idx' = idx + 1
            /\ pc' = "QueryRoomVersionCapabilities"
            /\ UNCHANGED response
       ELSE /\ idx' = idx
            /\ Return(InternalServerError)

\* Mutant: the first error of a server ends the loop.
TryNextServerGiveUp(err) ==
    /\ lastErr' = err
    /\ ResetAttempt
    /\ idx' = idx
    /\ Return(InternalServerError)

\* joinRoomUsingServer returned (nil, err): log it and try the next server, or
\* give up after the last one.
TryNextServer(err) ==
    /\ lastErr' = err
    /\ ResetAttempt
    /\ IF idx < Len(servers)
       THEN /\ idx' = idx + 1
            /\ pc' = "QueryRoomVersionCapabilities"
            /\ UNCHANGED response
       ELSE /\ idx' = idx
            /\ Return(InternalServerError)

\* Mutant: a response from a server does not end the loop.
ReturnFromServerContinue(resp) ==
    TryNextServer("")

\* joinRoomUsingServer returned (response, nil): return *response.
ReturnFromServer(resp) ==
    /\ lastErr' = ""
    /\ Return(resp)
    /\ UNCHANGED <<idx, attemptVars>>

\* ------------------------------------------------------ joinRoomUsingServer
QueryRoomVersionCapabilities ==
    /\ pc = "QueryRoomVersionCapabilities"
    /\ UNCHANGED <<reqVars, content, inviters, roomID, servers, eventVersion, published>>
    /\ \/ /\ calls' = Append(calls, Call("QueryRoomVersionCapabilities", server, <<>>, FALSE))
          /\ TryNextServer("QueryRoomVersionCapabilities")
       \/ \E av \in AvailableSets :
            /\ calls' = Append(calls, Call("QueryRoomVersionCapabilities", server, <<>>, TRUE))
            /\ supportedVersions' = av
            /\ pc' = "MakeJoin"
            /\ UNCHANGED <<idx, lastErr, respMakeJoin, event, respSendJoin, response>>

\* Mutant: the version of the response is ignored.
EffectiveRoomVersionV1Only(v) == RoomVersionV1

\* respMakeJoin.RoomVersion == "" means RoomVersionV1
EffectiveRoomVersion(v) == IF v = <<>> THEN RoomVersionV1 ELSE v

\* Mutant: an unknown event format is an error like that of make-join.
UnsupportedRoomVersionAsError(ver) ==
    TryNextServer("EventFormat")

\* EventFormat failed: a response, not an error, goes back to the loop.
UnsupportedRoomVersion(ver) ==
    ReturnFromServer(ErrResponse(StatusBadRequest, "UnsupportedRoomVersion",
                                 "Room version '%s' is not supported", ver))

MakeJoin ==
    /\ pc = "MakeJoin"
    /\ UNCHANGED <<reqVars, content, inviters, roomID, servers, eventVersion, published>>
    /\ \/ /\ calls' = Append(calls, Call("MakeJoin", server, <<>>, FALSE))
          /\ TryNextServer("MakeJoin")
       \/ \E tmpl \in Templates(userID, roomID), rv \in RemoteVersions :
            /\ calls' = Append(calls, Call("MakeJoin", server, rv, TRUE))
            /\ LET eb == writeToBuilder(tmpl, userID, content, roomID)
                   ver == EffectiveRoomVersion(rv) IN
               IF EventFormatErr(ver)
               THEN UnsupportedRoomVersion(ver)
               ELSE /\ respMakeJoin' = [JoinEvent |-> eb, RoomVersion |-> ver]
                    /\ pc' = "Build"
                    /\ UNCHANGED <<idx, lastErr, supportedVersions, event, respSendJoin,
                                   response>>

\* Mutant: a failure to build the event is an error that moves on to the
\* next server.
BuildErrorRetried ==
    /\ pc = "Build"
    /\ UNCHANGED <<reqVars, content, inviters, roomID, servers, eventVersion, published>>
    /\ \/ /\ calls' = Append(calls, Call("Build", <<>>, respMakeJoin.RoomVersion, FALSE))
          /\ TryNextServer("Build")
       \/ /\ calls' = Append(calls, Call("Build", <<>>, respMakeJoin.RoomVersion, TRUE))
          /\ event' = BuildSigned(respMakeJoin.JoinEvent, respMakeJoin.RoomVersion)
          /\ pc' = "SendJoin"
          /\ UNCHANGED <<idx, lastErr, supportedVersions, respMakeJoin, respSendJoin,
                         response>>

\* respMakeJoin.JoinEvent.Build: a failure is answered with a response, so
\* the loop ends.
Build ==
    /\ pc = "Build"
    /\ UNCHANGED <<reqVars, content, inviters, roomID, servers, eventVersion, published>>
    /\ \/ /\ calls' = Append(calls, Call("Build", <<>>, respMakeJoin.RoomVersion, FALSE))
          /\ ReturnFromServer(InternalServerError)
       \/ /\ calls' = Append(calls, Call("Build", <<>>, respMakeJoin.RoomVersion, TRUE))
          /\ event' = BuildSigned(respMakeJoin.JoinEvent, respMakeJoin.RoomVersion)
          /\ pc' = "SendJoin"
          /\ UNCHANGED <<idx, lastErr, supportedVersions, respMakeJoin, respSendJoin,
                         response>>

\* Mutant: the error of SendJoin is dropped.
SendJoinErrorDropped ==
    /\ pc = "SendJoin"
    /\ UNCHANGED <<reqVars, content, inviters, roomID, servers, eventVersion, published>>
    /\ \E ok \in BOOLEAN, st \in StateSnapshots :
         /\ calls' = Append(calls, Call("SendJoin", server, respMakeJoin.RoomVersion, ok))
         /\ respSendJoin' = st
         /\ pc' = "Check"
         /\ UNCHANGED <<idx, lastErr, supportedVersions, respMakeJoin, event, response>>

SendJoin ==
    /\ pc = "SendJoin"
    /\ UNCHANGED <<reqVars, content, inviters, roomID, servers, eventVersion, published>>
    /\ \/ /\ calls' = Append(calls, Call("SendJoin", server, respMakeJoin.RoomVersion, FALSE))
          /\ TryNextServer("SendJoin")
       \/ \E st \in StateSnapshots :
            /\ calls' = Append(calls, Call("SendJoin", server, respMakeJoin.RoomVersion, TRUE))
            /\ respSendJoin' = st
            /\ pc' = "Check"
            /\ UNCHANGED <<idx, lastErr, supportedVersions, respMakeJoin, event, response>>

\* Mutant: the error of respSendJoin.Check is dropped.
CheckErrorDropped ==
    /\ pc = "Check"
    /\ UNCHANGED <<reqVars, content, inviters, roomID, servers, eventVersion, published>>
    /\ \E ok \in BOOLEAN :
         /\ calls' = Append(calls, Call("Check", server, <<>>, ok))
         /\ pc' = "SendEventWithState"
         /\ UNCHANGED <<idx, lastErr, attemptVars, response>>

Check ==
    /\ pc = "Check"
    /\ UNCHANGED <<reqVars, content, inviters, roomID, servers, eventVersion, published>>
    /\ \/ /\ calls' = Append(calls, Call("Check", server, <<>>, FALSE))
          /\ TryNextServer("Check")
       \/ /\ calls' = Append(calls, Call("Check", server, <<>>, TRUE))
          /\ pc' = "SendEventWithState"
          /\ UNCHANGED <<idx, lastErr, attemptVars, response>>

\* Mutant: a failed publication is an error that moves on to the next server.
SendEventWithStateRetried ==
    /\ pc = "SendEventWithState"
    /\ UNCHANGED <<reqVars, content, inviters, roomID, servers, eventVersion, calls>>
    /\ \E ok \in BOOLEAN :
         /\ published' = Append(published,
                Publication("SendEventWithState", event, respMakeJoin.RoomVersion,
                            respSendJoin, ok))
         /\ IF ok
            THEN ReturnFromServer(OKResponse(roomID))
            ELSE TryNextServer("SendEventWithState")

SendEventWithState ==
    /\ pc = "SendEventWithState"
    /\ UNCHANGED <<reqVars, content, inviters, roomID, servers, eventVersion, calls>>
    /\ \E ok \in BOOLEAN :
         /\ published' = Append(published,
                Publication("SendEventWithState", event, respMakeJoin.RoomVersion,
                            respSendJoin, ok))
         /\ IF ok
            THEN ReturnFromServer(OKResponse(roomID))
            ELSE ReturnFromServer(InternalServerError)

\* ------------------------------------------------------------ specification
Next ==
    \/ JoinRoomByIDOrAlias
    \/ joinRoomByID
    \/ joinRoomByAlias
    \/ joinRoomByRemoteAlias
    \/ joinRoomUsingServers
    \/ SendEvents
    \/ QueryRoomVersionCapabilities
    \/ MakeJoin
    \/ Build
    \/ SendJoin
    \/ Check
    \/ SendEventWithState

Spec == Init /\ [][Next]_vars

\* Every call of a collaborator returns: the handler, one goroutine running
\* straight-line code and one loop, always takes its next step.
FairSpec == Spec /\ WF_vars(Next)

\* ------------------------------------------------------------------ history
Range(s) == {s[i] : i \in 1..Len(s)}
\* The calls of one operation.
CallsOf(op) == {c \in Range(calls) : c.op = op}
HandshakeCalls == CallsOf("MakeJoin") \cup CallsOf("SendJoin")
\* The handshake with candidate k succeeded: make-join, send-join, verification
\* and publication.
HandshakeSucceeded(k) ==
    /\ \E c \in CallsOf("MakeJoin") : c.cand = k /\ c.ok
    /\ \E c \in CallsOf("SendJoin") : c.cand = k /\ c.ok
    /\ \E c \in CallsOf("Check") : c.cand = k /\ c.ok
    /\ \E p \in Range(published) : p.op = "SendEventWithState" /\ p.cand = k /\ p.ok

\* ------------------------------------------------------------------- claims

\* C1: once the handshake with a candidate has succeeded, no make-join or
\* send-join call has gone, or ever goes, to a candidate later in the list.
C1_FirstSuccessWins ==
    \A k \in 1..Len(servers) :
        HandshakeSucceeded(k) => \A c \in HandshakeCalls : c.cand <= k

\* C1 witness: the first of several candidates succeeded.
C1_Witness ==
    /\ Len(servers) >= 2
    /\ HandshakeSucceeded(1)
    /\ pc = "done"

\* C2: an attempt whose send-join response failed verification made no call
\* to the publication capability.
C2_UnverifiedNeverPublished ==
    \A c \in CallsOf("Check") :
        ~c.ok => \A p \in Range(published) : p.cand # c.cand

\* C2 witness: verification failed for the first candidate, and the event
\* verified with the second candidate was published.
C2_Witness ==
    /\ \E c \in CallsOf("Check") : c.cand = 1 /\ ~c.ok
    /\ \E p \in Range(published) : p.cand = 2 /\ p.ok

\* C3: joining by room ID, the candidate list has no duplicate, lists the
\* inviters' domains in first-seen order, and ends with the domain of the room
\* ID exactly when that domain is not the local server and not an inviter's;
\* without inviters it is that single domain or empty.
InviterDomain(id) == SplitID("@", id).domain
InviterDomains == {InviterDomain(inviters[i]) : i \in 1..Len(inviters)}
FirstSeen(d) ==
    CHOOSE i \in 1..Len(inviters) :
        /\ InviterDomain(inviters[i]) = d
        /\ \A j \in 1..Len(inviters) : InviterDomain(inviters[j]) = d => i <= j
RoomDomain == SplitID("!", roomIDOrAlias).domain
RoomDomainExpected == RoomDomain # ServerName /\ RoomDomain \notin InviterDomains
ListBuiltByID == HasPrefix(roomIDOrAlias, "!") /\ roomID # <<>>

C3_CandidateList ==
    ListBuiltByID =>
        LET n == Cardinality(InviterDomains) IN
        /\ \A i, j \in 1..Len(servers) : i # j => servers[i] # servers[j]
        /\ Len(servers) = n + (IF RoomDomainExpected THEN 1 ELSE 0)
        /\ \A i \in 1..n : servers[i] \in InviterDomains
        /\ \A i, j \in 1..n : i < j => FirstSeen(servers[i]) < FirstSeen(servers[j])
        /\ RoomDomainExpected => servers[n + 1] = RoomDomain
        /\ inviters = <<>> => servers \in {<<>>, <<RoomDomain>>}

\* C3 witness: two invites from one domain, then the room's own domain.
C3_Witness ==
    /\ ListBuiltByID
    /\ Len(inviters) = 2
    /\ inviters[1] # inviters[2]
    /\ servers = <<RemoteA, RemoteB>>

\* C4: the room absent locally and no candidate: NotFound, and no make-join,
\* send-join or publication.
LocalAbsent == \E c \in CallsOf("BuildEvent") : c.info = <<"ErrRoomNoExists">>

C4_NoCandidatesNotFound ==
    (LocalAbsent /\ Len(servers) = 0) =>
        /\ pc = "done"
        /\ response.Code = StatusNotFound
        /\ HandshakeCalls = {}
        /\ published = <<>>

C4_Witness ==
    /\ LocalAbsent
    /\ Len(servers) = 0
    /\ pc = "done"

\* C5: the version a send-join is called with, and the version the published
\* event is signed and published with, is the one of the make-join response of
\* the same candidate (the oldest when omitted); an attempt starts with nothing
\* of an earlier one.
NegotiatedVersion(c) == IF c.info = <<>> THEN RoomVersionV1 ELSE c.info

C5_VersionOfSameCandidate ==
    /\ \A p \in Range(published) :
         p.op = "SendEventWithState" =>
             \E c \in CallsOf("MakeJoin") :
                 /\ c.cand = p.cand /\ c.ok
                 /\ p.RoomVersion = NegotiatedVersion(c)
                 /\ p.event.Format = NegotiatedVersion(c)
    /\ \A s \in CallsOf("SendJoin") :
         \E c \in CallsOf("MakeJoin") :
             c.cand = s.cand /\ c.ok /\ s.info = NegotiatedVersion(c)
    /\ pc = "QueryRoomVersionCapabilities" =>
         respMakeJoin = ZeroMakeJoin /\ event = ZeroEvent

\* C5 witness: the first candidate negotiated version 2 and failed at
\* send-join; the second omitted the version and its event was published.
C5_Witness ==
    /\ \E c \in CallsOf("MakeJoin") : c.cand = 1 /\ c.ok /\ c.info = RoomVersionV2
    /\ \E c \in CallsOf("SendJoin") : c.cand = 1 /\ ~c.ok
    /\ \E c \in CallsOf("MakeJoin") : c.cand = 2 /\ c.ok /\ c.info = <<>>
    /\ \E p \in Range(published) : p.cand = 2 /\ p.ok /\ p.RoomVersion = RoomVersionV1

\* C6: a target with neither sigil, or a '#' target without ':'.
BadTarget ==
    \/ roomIDOrAlias[1] \notin {"!", "#"}
    \/ roomIDOrAlias[1] = "#" /\ ":" \notin Range(roomIDOrAlias)
\* No invite query, directory lookup, local build, handshake or publication.
NoJoinWork ==
    /\ \A c \in Range(calls) : c.op = "GetProfileByLocalpart"
    /\ published = <<>>
\* The steps before the test of the target succeeded.
PreliminariesOK ==
    /\ body.valid
    /\ tsOK
    /\ userID[1] = "@" /\ ":" \in Range(userID)
    /\ \E c \in CallsOf("GetProfileByLocalpart") : c.ok

\* C6 as stated: every request for such a target ends in 400. Violated: a
\* failed profile lookup ends it in 500 before the target is looked at.
C6_Original ==
    (BadTarget /\ pc = "done") => response.Code = StatusBadRequest /\ NoJoinWork

\* C6 amended: for such a target nothing is queried, looked up, joined or
\* published; the response is BadRequest when the body, the ts parameter, the
\* user ID and the profile lookup were good, and the internal error when the
\* user ID or the profile lookup was not.
C6_BadTarget ==
    BadTarget =>
        /\ NoJoinWork
        /\ (pc = "done" /\ PreliminariesOK) =>
               response.Code = StatusBadRequest /\ response.JSON = "BadJSON"
        /\ (pc = "done" /\ body.valid /\ tsOK /\ ~PreliminariesOK) =>
               response = InternalServerError

C6_Witness ==
    /\ roomIDOrAlias = UserTarget
    /\ PreliminariesOK
    /\ pc = "done"
    /\ response.Code = StatusBadRequest

\* C7: a 200 carries the resolved room ID and follows exactly one successful
\* publication, of an m.room.member event with membership "join", sent by and
\* about the requesting user, in that room.
ResolvedRoomID(r) ==
    IF roomIDOrAlias[1] = "!" THEN r = roomIDOrAlias
    ELSE \E c \in CallsOf("GetRoomIDForAlias") \cup CallsOf("LookupRoomAlias") :
             c.ok /\ c.info = r
JoinEventOf(ev, user, room) ==
    /\ ev.eb.Type = "m.room.member"
    /\ ev.eb.Content["membership"] = "join"
    /\ ev.eb.Sender = user
    /\ ev.eb.StateKey = user
    /\ ev.eb.RoomID = room

C7_SuccessMeansPublished ==
    response.Code = StatusOK =>
        /\ response.RoomID = roomID
        /\ ResolvedRoomID(roomID)
        /\ Cardinality({i \in 1..Len(published) : published[i].ok}) = 1
        /\ \A p \in Range(published) : p.ok => JoinEventOf(p.event, userID, roomID)

\* C7 witness: an alias of a remote domain resolved to a room joined over
\* federation.
C7_Witness ==
    /\ roomIDOrAlias = AliasA
    /\ response = OKResponse(RoomA)
    /\ Len(published) = 1
    /\ published[1].op = "SendEventWithState"

\* Candidate k's make-join negotiated a version of unknown event format.
UnsupportedAt(k) ==
    \E c \in CallsOf("MakeJoin") :
        c.cand = k /\ c.ok /\ NegotiatedVersion(c) = RoomVersionUnknown

\* C8 as stated: after an unsupported version the loop goes on to the next
\* candidate, and after the last one the request ends in 500. Violated: the
\* request ends at that candidate, in 400.
C8_Original ==
    \A k \in 1..Len(servers) :
        (UnsupportedAt(k) /\ pc = "done") =>
            IF k < Len(servers)
            THEN \E c \in Range(calls) : c.cand = k + 1
            ELSE response = InternalServerError

\* C8 amended: an unsupported version ends the loop at that candidate, the
\* last one or not: no later candidate is tried and the outcome is BadRequest.
C8_UnsupportedVersionEndsLoop ==
    \A k \in 1..Len(servers) :
        UnsupportedAt(k) =>
            /\ pc = "done"
            /\ idx = k
            /\ \A c \in Range(calls) : c.cand <= k
            /\ response.Code = StatusBadRequest

C8_Witness ==
    /\ Len(servers) >= 2
    /\ UnsupportedAt(1)
    /\ pc = "done"

\* C9: an unsupported version is a 400 UnsupportedRoomVersion that is not
\* retried: no send-join to that candidate, no call to a later one, nothing
\* published.
C9_UnsupportedVersionBadRequest ==
    \A k \in 1..Len(servers) :
        UnsupportedAt(k) =>
            /\ response.Code = StatusBadRequest
            /\ response.JSON = "UnsupportedRoomVersion"
            /\ response.Arg = RoomVersionUnknown
            /\ \A c \in CallsOf("SendJoin") : c.cand # k
            /\ \A c \in HandshakeCalls : c.cand <= k
            /\ published = <<>>

\* C9 witness: the first candidate failed, the second negotiated the unknown
\* version.
C9_Witness ==
    /\ UnsupportedAt(2)
    /\ \E c \in CallsOf("SendJoin") : c.cand = 1 /\ ~c.ok
    /\ response.Code = StatusBadRequest

\* C10: at most one call to SendEvents or SendEventWithState in a request.
C10_PublishedAtMostOnce == Len(published) <= 1

\* C10 witness: the publication failed with candidates left.
C10_Witness ==
    /\ Len(published) = 1
    /\ ~published[1].ok
    /\ published[1].op = "SendEventWithState"
    /\ idx < Len(servers)
    /\ pc = "done"

\* C11: in one request no server name is the target of two make-join calls
\* or of two send-join calls, whatever the kind of the target.
C11_OneHandshakePerServer ==
    \A i, j \in 1..Len(calls) :
        ( /\ calls[i].op \in {"MakeJoin", "SendJoin"}
          /\ calls[j].op = calls[i].op
          /\ calls[j].server = calls[i].server ) => i = j

\* No local join, make-join, send-join or publication has been attempted.
NoJoinAttempt ==
    /\ CallsOf("BuildEvent") = {}
    /\ HandshakeCalls = {}
    /\ published = <<>>

\* C12: a local alias that GetRoomIDForAlias resolves to no room ends in
\* NotFound without a call to a remote server; a failed LookupRoomAlias ends
\* in NotFound when the error is an HTTP 404 and in the internal server error
\* otherwise; in none of these cases a local join, a make-join, a send-join
\* or a publication is attempted.
C12_AliasResolutionOutcomes ==
    /\ \A c \in CallsOf("GetRoomIDForAlias") :
          (c.ok /\ c.info = <<>>) =>
              /\ pc = "done"
              /\ response.Code = StatusNotFound
              /\ response.JSON = "NotFound"
              /\ CallsOf("LookupRoomAlias") = {}
              /\ NoJoinAttempt
    /\ \A c \in CallsOf("LookupRoomAlias") :
          ~c.ok =>
              /\ pc = "done"
              /\ NoJoinAttempt
              /\ IF c.info = <<"HTTPError404">>
                 THEN response.Code = StatusNotFound /\ response.JSON = "NotFound"
                 ELSE response = InternalServerError

\* The lookup of a remote alias failed with an HTTP error other than 404.
C12_Witness ==
    /\ pc = "done"
    /\ \E c \in CallsOf("LookupRoomAlias") :
          ~c.ok /\ c.info = <<"HTTPError500">> /\ c.server = RemoteA
    /\ response = InternalServerError

\* The fields of a builder that writeToBuilder sets.
DraftFields(eb) ==
    <<eb.Type, eb.Sender, eb.StateKey, eb.RoomID, eb.Content, eb.Unsigned, eb.Redacts>>
\* The builders writeToBuilder is applied to in a request: the empty one of
\* the local attempt and the join events of the make-join responses.
BuildersOfRequest == {ZeroBuilder} \cup Templates(userID, roomID)
\* A make-join response is held: writeToBuilder has been applied to its event.
DraftWritten == pc \in {"Build", "SendJoin", "Check", "SendEventWithState"}

\* C13: for the request and the room ID at hand writeToBuilder gives the
\* same type, sender, state key, room ID, content, unsigned and redaction
\* fields whatever builder it is applied to, so the draft of every candidate
\* carries the fields of the draft of the local attempt, and applying it a
\* second time changes nothing.
C13_DraftDeterministicIdempotent ==
    /\ \A b1, b2 \in BuildersOfRequest :
          /\ DraftFields(writeToBuilder(b1, userID, content, roomID))
                = DraftFields(writeToBuilder(b2, userID, content, roomID))
          /\ writeToBuilder(writeToBuilder(b1, userID, content, roomID),
                            userID, content, roomID)
                = writeToBuilder(b1, userID, content, roomID)
    /\ DraftWritten =>
          /\ DraftFields(respMakeJoin.JoinEvent)
                = DraftFields(writeToBuilder(ZeroBuilder, userID, content, roomID))
          /\ writeToBuilder(respMakeJoin.JoinEvent, userID, content, roomID)
                = respMakeJoin.JoinEvent

\* The second candidate holds its draft after the first had been given one.
C13_Witness ==
    /\ pc = "Build"
    /\ idx = 2
    /\ \E c \in CallsOf("MakeJoin") : c.cand = 1 /\ c.ok
    /\ respMakeJoin.JoinEvent.Sender = userID
    /\ respMakeJoin.JoinEvent.Content = content

\* The local attempt ended in an error other than ErrRoomNoExists: BuildEvent
\* failed otherwise, or SendEvents failed.
LocalFailure ==
    \/ \E c \in CallsOf("BuildEvent") : c.info = <<"error">>
    \/ \E p \in Range(published) : p.op = "SendEvents" /\ ~p.ok

\* C14: a make-join or send-join call is made only after the local attempt
\* has ended with ErrRoomNoExists; after any other failure of the local
\* attempt the request ends in the internal server error without a make-join
\* or send-join call.
C14_LocalAttemptGatesFederation ==
    /\ \A i \in 1..Len(calls) :
          calls[i].op \in {"QueryRoomVersionCapabilities", "MakeJoin", "SendJoin"} =>
              \E j \in 1..(i - 1) :
                  calls[j].op = "BuildEvent" /\ calls[j].info = <<"ErrRoomNoExists">>
    /\ (\E c \in CallsOf("BuildEvent") : c.info # <<"ErrRoomNoExists">>) =>
          HandshakeCalls = {}
    /\ LocalFailure =>
          /\ HandshakeCalls = {}
          /\ pc = "done"
          /\ response = InternalServerError

\* The local publication failed for a room that has candidate servers.
C14_Witness ==
    /\ pc = "done"
    /\ Len(servers) > 0
    /\ \E p \in Range(published) : p.op = "SendEvents" /\ ~p.ok
    /\ response = InternalServerError

\* Nothing was asked of a candidate after candidate k.
NoneAfter(k) ==
    /\ idx = k
    /\ \A c \in Range(calls) : c.cand <= k
    /\ \A p \in Range(published) : p.cand <= k

\* C15: when building (signing) the join event of a candidate fails, or when
\* SendEventWithState fails after the verification, the request ends in the
\* internal server error and no later candidate receives a make-join or a
\* send-join.
C15_FatalLocalFailureEndsLoop ==
    /\ \A c \in CallsOf("Build") :
          ~c.ok => /\ pc = "done"
                   /\ response = InternalServerError
                   /\ NoneAfter(c.cand)
    /\ \A p \in Range(published) :
          (p.op = "SendEventWithState" /\ ~p.ok) =>
                   /\ pc = "done"
                   /\ response = InternalServerError
                   /\ NoneAfter(p.cand)

\* Building the event of the first of two candidates failed.
C15_Witness ==
    /\ pc = "done"
    /\ Len(servers) = 2
    /\ servers[1] # servers[2]
    /\ \E c \in CallsOf("Build") : ~c.ok /\ c.cand = 1
    /\ response = InternalServerError

\* The steps of an attempt whose failure joinRoomUsingServer returns as an error.
AttemptErrorOps == {"QueryRoomVersionCapabilities", "MakeJoin", "SendJoin", "Check"}
\* The failures of that kind with candidate k.
FailedAt(k) == {c \in Range(calls) : c.cand = k /\ ~c.ok /\ c.op \in AttemptErrorOps}
\* The attempts made so far, each by the call that opens it.
IsFirstStep(c) == c.op = "QueryRoomVersionCapabilities"
Attempts == SelectSeq(calls, IsFirstStep)

\* C16: the candidates are attempted once each in the order of the list; a
\* candidate that fails at the capabilities query, make-join, send-join or
\* the verification is followed by the next one in the list; when the last
\* one has failed so, nothing has been published and the request ends in the
\* internal server error, the error kept for the log being that of the last
\* candidate.
C16_AttemptFailuresFoldInOrder ==
    /\ Len(Attempts) = IF pc = "QueryRoomVersionCapabilities" THEN idx - 1 ELSE idx
    /\ \A i \in 1..Len(Attempts) :
          Attempts[i].cand = i /\ Attempts[i].server = servers[i]
    /\ \A k \in 1..Len(servers) : \A c \in FailedAt(k) :
          IF k < Len(servers)
          THEN idx > k
          ELSE /\ pc = "done"
               /\ idx = k
               /\ published = <<>>
               /\ response = InternalServerError
               /\ lastErr = c.op
               /\ \A j \in 1..k : FailedAt(j) # {}

\* Both candidates failed, the first at make-join and the second at the
\* verification.
C16_Witness ==
    /\ pc = "done"
    /\ Len(servers) = 2
    /\ \E c \in FailedAt(1) : c.op = "MakeJoin"
    /\ \E c \in FailedAt(2) : c.op = "Check"
    /\ lastErr = "Check"
    /\ response = InternalServerError

\* The fields of a signed event are those of the join the request asks for.
RequestedJoin(ev) ==
    /\ ev.Signed
    /\ ev.eb.Type = "m.room.member"
    /\ ev.eb.Sender = userID
    /\ ev.eb.StateKey = userID
    /\ ev.eb.RoomID = roomID
    /\ ResolvedRoomID(roomID)
    /\ ev.eb.Content = content
    /\ ev.eb.Content["membership"] = "join"
    /\ ev.eb.Redacts = ""
\* The event of the attempt has been built for send-join.
EventBuilt == pc \in {"SendJoin", "Check", "SendEventWithState"}

\* C17: whatever join event the make-join response holds, the event that is
\* signed and handed to send-join, and every event published, is a membership
\* event whose sender and state key are the requesting user, whose room is
\* the resolved room, whose content is that of the request and which redacts
\* nothing.
C17_SubmittedEventIsRequestedJoin ==
    /\ EventBuilt => RequestedJoin(event)
    /\ \A p \in Range(published) : RequestedJoin(p.event)

\* An event built on the join event of a make-join response has been sent to
\* the server and published with the state of the room.
C17_Witness ==
    /\ \E c \in CallsOf("SendJoin") : c.ok /\ c.cand = idx
    /\ \E p \in Range(published) :
          /\ p.op = "SendEventWithState"
          /\ p.event = event
          /\ p.event.eb.PrevEvents = "remote"
          /\ p.event.eb.Sender = userID

\* C18: the room version bound into an event that is signed and sent to
\* send-join is one of the versions QueryRoomVersionCapabilities returned in
\* the same attempt.
C18_VersionLocallySupported ==
    EventBuilt =>
        /\ event.Format \in supportedVersions
        /\ respMakeJoin.RoomVersion \in supportedVersions

\* Call i was preceded, in the same attempt, by a successful call of op.
PrecededBy(i, op) ==
    \E j \in 1..(i - 1) :
        /\ calls[j].op = op
        /\ calls[j].ok
        /\ calls[j].cand = calls[i].cand

\* C20: within an attempt send-join goes to a server only after make-join to
\* that server succeeded and the event was built, the verification runs only
\* after that send-join succeeded, and SendEventWithState runs only after the
\* verification succeeded, with the event that was sent and the state that
\* send-join returned.
C20_HandshakeStepOrder ==
    /\ \A i \in 1..Len(calls) :
          /\ calls[i].op = "SendJoin" =>
                /\ PrecededBy(i, "Build")
                /\ \E j \in 1..(i - 1) :
                      /\ calls[j].op = "MakeJoin"
                      /\ calls[j].ok
                      /\ calls[j].cand = calls[i].cand
                      /\ calls[j].server = calls[i].server
                      /\ \E b \in (j + 1)..(i - 1) :
                            calls[b].op = "Build" /\ calls[b].ok
          /\ calls[i].op = "Check" =>
                /\ PrecededBy(i, "SendJoin")
                /\ calls[i - 1].op = "SendJoin"
                /\ calls[i - 1].server = calls[i].server
    /\ pc = "SendEventWithState" =>
          /\ calls[Len(calls)].op = "Check"
          /\ calls[Len(calls)].ok
          /\ calls[Len(calls)].cand = idx
    /\ \A p \in Range(published) :
          p.op = "SendEventWithState" =>
              /\ \E c \in CallsOf("Check") : c.ok /\ c.cand = p.cand
              /\ \E c \in CallsOf("SendJoin") :
                    c.ok /\ c.cand = p.cand /\ c.info = p.RoomVersion
              /\ p.cand = idx
              /\ p.state = respSendJoin
              /\ p.state \in StateSnapshots
              /\ p.event = event
              /\ event.Signed

\* The second candidate went through all the steps after send-join to the
\* first one had failed.
C20_Witness ==
    /\ pc = "done"
    /\ idx = 2
    /\ \E c \in CallsOf("SendJoin") : c.cand = 1 /\ ~c.ok
    /\ \E c \in CallsOf("Check") : c.cand = 2 /\ c.ok
    /\ \E p \in Range(published) :
          p.op = "SendEventWithState" /\ p.cand = 2 /\ p.state = "s2" /\ p.ok

\* C21: whatever the kind of the target, no make-join or send-join call of a
\* request is addressed to the name of the local server.
C21_LocalServerNeverTarget ==
    \A c \in HandshakeCalls : c.server # ServerName

\* The status codes of the four outcomes: success, not found, bad request and
\* the internal (or upstream) failure.
OutcomeCodes == {StatusOK, StatusNotFound, StatusBadRequest, InternalServerError.Code}
\* The number of make-join calls made so far.
MakeJoinCount == Cardinality({i \in 1..Len(calls) : calls[i].op = "MakeJoin"})
\* The request is being served within one pass over the candidate list.
OnePass ==
    /\ MakeJoinCount <= Len(servers)
    /\ Len(Attempts) <= Len(servers)
    /\ idx <= Len(servers)
\* The response is given when the handler returns, and it is one of the outcomes.
OneOutcome ==
    /\ pc = "done" <=> response # NoResponse
    /\ pc = "done" => response.Code \in OutcomeCodes

\* C22: when every collaborator call returns, the request ends with one
\* response, which is success, not found, bad request or the internal
\* failure and does not change afterwards; it makes no more make-join calls
\* than the candidate list has elements and passes over the list at most
\* once.
C22_TerminatesWithOneOutcome ==
    /\ [](OnePass /\ OneOutcome)
    /\ [][pc = "done" => (pc' = "done" /\ response' = response)]_vars
    /\ <>[](pc = "done")

\* A request ended in success with its second and last candidate, after one
\* make-join call to each.
C22_Witness ==
    /\ pc = "done"
    /\ Len(servers) = 2
    /\ idx = 2
    /\ MakeJoinCount = 2
    /\ response.Code = StatusOK

====
